---- MODULE Spec2Model ----
\* A model of packages/fiber/src/web/Canvas.tsx: the Canvas component (its
\* state hooks, its three effects), the Block sentinel and the ErrorBoundary
\* that it hands to the render bridge, and the events that drive them.
\* One instance of the component is followed from its first commit to its
\* teardown.  Every handler is one action: the state update it makes, the
\* evaluation of Canvas that React runs for it, and the effects of the commit.
EXTENDS Integers, Sequences, FiniteSets, TLC

\* ---------------------------------------------------------------- bounds
MaxWidth == 2       \* widths reported lie in 0..MaxWidth
MaxHeight == 1      \* heights reported lie in 0..MaxHeight
MaxRenders == 4     \* evaluations of Canvas after the first commit
MaxBlocks == 2      \* times the Suspense fallback (Block) is displayed
MaxAttrs == 2       \* attributes a caller supplies to Canvas

Widths == 0..MaxWidth
Heights == 0..MaxHeight
ChildrenRefs == {"c1", "c2"}                 \* references of the children prop
Frameloops == {"always", "never"}           \* RenderProps.frameloop: continuous, paused
\* values a child can throw: two objects and a falsy value (throw null)
Thrown == {"errA", "errB", "null"}

\* ------------------------------------------------------- state of the model
VARIABLES
  mounted,        \* the Canvas instance exists (not yet torn down)
  width, height,  \* useMeasure's bounds, line 74
  block,          \* useState<SetBlock>(false), line 76: 0 is false, n > 0 the n-th Promise
  error,          \* useState<any>(false), line 77
  visible,        \* useState(false), line 78
  children,       \* props of the latest evaluation: children, intersect,
                  \* frameloop (the events prop and the attributes split by
                  \* CANVAS_PROPS are not part of this state)
  intersect,
  frameloop,
  renders,        \* evaluations of Canvas so far (the first one is number 0)
  raised,         \* what the latest evaluation threw
  deps,           \* dependencies the mount layout effect last ran with
  intersectDep,   \* dependency the intersection effect last ran with
  mountCount,     \* calls of render (the bridge's mount)
  lastMount,      \* options of the latest render call
  unmountCount,   \* calls of unmountComponentAtNode
  tree,           \* what the bridge's root displays
  caught,         \* the value componentDidCatch received, "none" before
  promises,       \* Promises created by Block so far
  observersCreated,
  observersDisconnected,
  delivered,      \* the attached observer has delivered a callback
  lastEvent,      \* the handler that ran last
  props,          \* the attributes a caller supplied, name -> value
  mountArgs,      \* the options object of a render call, name -> value
  divAttrs        \* the attributes spread on the container div, name -> value

vars == <<mounted, width, height, block, error, visible, children,
          intersect, frameloop, renders, raised, deps, intersectDep,
          mountCount, lastMount, unmountCount, tree, caught, promises,
          observersCreated, observersDisconnected, delivered, lastEvent,
          props, mountArgs, divAttrs>>

\* the variables of the attribute split
attrVars == <<props, mountArgs, divAttrs>>

\* ------------------------------------------------------------ pure helpers
\* SetBlock's value false (line 23, line 76)
NotBlocking == 0

\* JavaScript truthiness of a stored error: `if (error)` on line 83
Truthy(e) == e \notin {"false", "null"}

\* what an evaluation raises: nothing, the block token, or the error
NoRaise == [block |-> NotBlocking, error |-> "false"]

\* mutant of Raises: the error check comes before the block check
RaisesErrorFirst(b, e) ==
  IF Truthy(e) THEN [block |-> NotBlocking, error |-> e]
  ELSE IF b # NotBlocking THEN [block |-> b, error |-> "false"]
  ELSE NoRaise

\* mutant of Raises: the error check of line 83 is missing
RaisesBlockOnly(b, e) ==
  IF b # NotBlocking THEN [block |-> b, error |-> "false"] ELSE NoRaise

\* mutant of Raises: the block check of line 81 is missing
RaisesErrorOnly(b, e) ==
  IF Truthy(e) THEN [block |-> NotBlocking, error |-> e] ELSE NoRaise

\* lines 80-83: the block check, then the error check
Raises(b, e) ==
  IF b # NotBlocking THEN [block |-> b, error |-> "false"]
  ELSE IF Truthy(e) THEN [block |-> NotBlocking, error |-> e]
  ELSE NoRaise

\* mutant of Report: the boundary reports its own flag, not the error
ReportFlag(e) == "true"

\* line 61: what componentDidCatch(error) passes to set
Report(e) == e

\* mutant of MountGuard: || in place of &&
MountGuardEither(w, h) == w > 0 \/ h > 0

\* line 87
MountGuard(w, h) == w > 0 /\ h > 0

\* mutant of shouldRender: the intersect option is not consulted
shouldRenderVisibleOnly(i, v) == v

\* line 88
shouldRender(i, v) == ~i \/ v

\* mutant of ForwardedFrameloop: the configured mode is forwarded as it is
ForwardedFrameloopUnpaused(i, v, f) == f

\* line 99
ForwardedFrameloop(i, v, f) == IF shouldRender(i, v) THEN f ELSE "never"

\* the options object of the render call, lines 95-100, and the children
\* wrapped on lines 91-93
MountOptions(w, h, c, i, v, f) ==
  [width |-> w, height |-> h, children |-> c,
   frameloop |-> ForwardedFrameloop(i, v, f)]

NoMount == [width |-> 0, height |-> 0, children |-> "none", frameloop |-> "none"]

\* mutant of canvasProps: the picked object is memoised, one identity for all evaluations
canvasPropsMemo(n) == 0

\* line 72: pick returns a new object on each evaluation; its identity is the
\* number of the evaluation that created it
canvasProps(n) == n

\* mutant of MountDeps: the list names the width and the height alone
MountDepsSizeOnly(w, h, c, n, v) == <<w, h, "c1", 0, FALSE>>

\* line 103: the dependency list of the mount effect
MountDeps(w, h, c, n, v) == <<w, h, c, canvasProps(n), v>>

\* React runs an effect when a dependency differs from the last commit's
DepsChanged(old, new) == old # new

\* line 78
InitialVisible == FALSE

\* mutant of SizeChanged: every report updates the bounds state
SizeChangedAlways(w0, h0, w, h) == TRUE

\* line 74: useMeasure sets its bounds state only when the measured bounds differ
SizeChanged(w0, h0, w, h) == <<w0, h0>> # <<w, h>>

\* mutant of SetState: the update is applied whether the component is mounted or not
SetStateAlways(alive, old, new) == new

\* React drops a state update to a component that is no longer mounted
SetState(alive, old, new) == IF alive THEN new ELSE old

\* the observer currently attached to the canvas
Attached == observersCreated - observersDisconnected

\* ---------------------------------------------------------- the evaluation
\* mutant of IntersectEffect: the effect returns no cleanup
IntersectEffectNoCleanup(i, d) ==
  IF i # intersectDep
  THEN /\ intersectDep' = i
       /\ observersDisconnected' = observersDisconnected
       /\ observersCreated' = observersCreated + (IF i THEN 1 ELSE 0)
       /\ delivered' = FALSE
  ELSE /\ delivered' = d
       /\ UNCHANGED <<intersectDep, observersCreated, observersDisconnected>>

\* lines 111-119, on a commit with intersect prop i: the cleanup of the last
\* run, then a new observer when i is set (canvasRef.current is never null
\* once committed)
IntersectEffect(i, d) ==
  IF i # intersectDep
  THEN /\ intersectDep' = i
       /\ observersDisconnected' = observersDisconnected + Attached
       /\ observersCreated' = observersCreated + (IF i THEN 1 ELSE 0)
       /\ delivered' = FALSE
  ELSE /\ delivered' = d
       /\ UNCHANGED <<intersectDep, observersCreated, observersDisconnected>>

\* mutant of MountEffect: a size that is not positive unmounts the bridge's tree
MountEffectUnmountsAtZero(t, w, h, c, i, v, f) ==
  LET new == MountDeps(w, h, c, renders + 1, v) IN
  /\ deps' = new
  /\ IF DepsChanged(deps, new) /\ MountGuard(w, h)
     THEN /\ mountCount' = mountCount + 1
          /\ lastMount' = MountOptions(w, h, c, i, v, f)
          /\ tree' = IF t = "none" THEN "children" ELSE t
          /\ unmountCount' = unmountCount
     ELSE /\ UNCHANGED <<mountCount, lastMount>>
          /\ tree' = t
          /\ unmountCount' = unmountCount + 1

\* lines 86-103, on a commit: the effect runs when a dependency changed and
\* calls render when the size is positive; it has no cleanup and never calls
\* unmountComponentAtNode.  t is the bridge's tree before.
MountEffect(t, w, h, c, i, v, f) ==
  LET new == MountDeps(w, h, c, renders + 1, v) IN
  /\ deps' = new
  /\ unmountCount' = unmountCount
  /\ IF DepsChanged(deps, new) /\ MountGuard(w, h)
     THEN /\ mountCount' = mountCount + 1
          /\ lastMount' = MountOptions(w, h, c, i, v, f)
          /\ tree' = IF t = "none" THEN "children" ELSE t
     ELSE /\ UNCHANGED <<mountCount, lastMount>>
          /\ tree' = t

\* lines 68-131: one evaluation of Canvas with state (b, e, w, h, v) and props
\* (c, i, f), followed by the commit when it raises nothing.  t is the
\* bridge's tree and d the observer's delivered flag as the handler left them.
Evaluate(t, d, b, e, w, h, v, c, i, f) ==
  /\ renders' = renders + 1
  /\ raised' = Raises(b, e)
  /\ IF Raises(b, e) = NoRaise
     THEN /\ MountEffect(t, w, h, c, i, v, f)
          /\ IntersectEffect(i, d)
     ELSE /\ tree' = t
          /\ delivered' = d
          /\ UNCHANGED <<deps, mountCount, lastMount, unmountCount, intersectDep,
                         observersCreated, observersDisconnected>>

\* ------------------------------------------------------------------- Init
\* The state after the first evaluation and commit: useMeasure starts at zero
\* bounds, so the mount effect ran without calling render; the unmount effect
\* (lines 105-108) is registered; the intersection effect ran once.
CanvasInit ==
  /\ mounted = TRUE
  /\ width = 0 /\ height = 0
  /\ block = NotBlocking
  /\ error = "false"
  /\ visible = InitialVisible
  /\ children = "c1"
  /\ intersect \in BOOLEAN
  /\ frameloop \in Frameloops
  /\ renders = 0
  /\ raised = NoRaise
  /\ deps = MountDeps(0, 0, children, 0, InitialVisible)
  /\ intersectDep = intersect
  /\ mountCount = 0
  /\ lastMount = NoMount
  /\ unmountCount = 0
  /\ tree = "none"
  /\ caught = "none"
  /\ promises = 0
  /\ observersCreated = (IF intersect THEN 1 ELSE 0)
  /\ observersDisconnected = 0
  /\ delivered = FALSE
  /\ lastEvent = "init"

\* An object with no attribute
NoAttrs == [n \in {} |-> "undefined"]

\* The component constructed with children alone: no further attribute
Init ==
  /\ CanvasInit
  /\ props = NoAttrs /\ mountArgs = NoAttrs /\ divAttrs = NoAttrs

\* ---------------------------------------------------------------- actions
\* The size observer reports (w, h) (line 74); it is released at teardown.
SizeReport(w, h) ==
  /\ mounted
  /\ lastEvent' = "size"
  /\ UNCHANGED attrVars
  /\ IF SizeChanged(width, height, w, h)
     THEN /\ renders < MaxRenders
          /\ width' = w /\ height' = h
          /\ Evaluate(tree, delivered, block, error, w, h, visible,
                      children, intersect, frameloop)
     ELSE UNCHANGED <<width, height, renders, raised, deps, intersectDep,
                      mountCount, lastMount, unmountCount, tree,
                      observersCreated, observersDisconnected, delivered>>
  /\ UNCHANGED <<mounted, block, error, visible, children, intersect,
                 frameloop, caught, promises>>

\* The IntersectionObserver's callback, line 115: setVisible(entry.isIntersecting).
\* React evaluates again only when the state changes.
Intersection(b) ==
  /\ mounted /\ Attached > 0
  /\ lastEvent' = "intersection"
  /\ UNCHANGED attrVars
  /\ IF b # visible
     THEN /\ renders < MaxRenders
          /\ visible' = b
          /\ Evaluate(tree, TRUE, block, error, width, height, b,
                      children, intersect, frameloop)
     ELSE /\ delivered' = TRUE
          /\ UNCHANGED <<visible, renders, raised, deps, intersectDep,
                         mountCount, lastMount, unmountCount, tree,
                         observersCreated, observersDisconnected>>
  /\ UNCHANGED <<mounted, width, height, block, error, children,
                 intersect, frameloop, caught, promises>>

\* The parent evaluates Canvas with props (c, i, f), lines 68-70
Rerender(c, i, f) ==
  /\ mounted /\ renders < MaxRenders
  /\ lastEvent' = "props"
  /\ UNCHANGED attrVars
  /\ children' = c /\ intersect' = i /\ frameloop' = f
  /\ Evaluate(tree, delivered, block, error, width, height, visible, c, i, f)
  /\ UNCHANGED <<mounted, width, height, block, error, visible, caught, promises>>

\* A child of the mounted tree suspends: Suspense displays its fallback, and
\* Block's layout effect calls set(new Promise(() => null)), lines 50-51, 92
ChildSuspends ==
  /\ mounted /\ tree = "children"
  /\ promises < MaxBlocks /\ renders < MaxRenders
  /\ lastEvent' = "suspend"
  /\ UNCHANGED attrVars
  /\ promises' = promises + 1
  /\ block' = promises + 1
  /\ Evaluate("fallback", delivered, promises + 1, error, width, height, visible,
              children, intersect, frameloop)
  /\ UNCHANGED <<mounted, width, height, error, visible, children,
                 intersect, frameloop, caught>>

\* mutant of ChildResolves: Block's effect returns no cleanup, so the block
\* state keeps its token
ChildResolvesNoCleanup ==
  /\ mounted /\ tree = "fallback"
  /\ renders < MaxRenders
  /\ lastEvent' = "resolve"
  /\ UNCHANGED attrVars
  /\ block' = block
  /\ Evaluate("children", delivered, block, error, width, height, visible,
              children, intersect, frameloop)
  /\ UNCHANGED <<mounted, width, height, error, visible, children,
                 intersect, frameloop, caught, promises>>

\* The children's dependency resolves: Suspense removes the fallback, and
\* Block's cleanup calls set(false), line 52
ChildResolves ==
  /\ mounted /\ tree = "fallback"
  /\ renders < MaxRenders
  /\ lastEvent' = "resolve"
  /\ UNCHANGED attrVars
  /\ block' = NotBlocking
  /\ Evaluate("children", delivered, NotBlocking, error, width, height, visible,
              children, intersect, frameloop)
  /\ UNCHANGED <<mounted, width, height, error, visible, children,
                 intersect, frameloop, caught, promises>>

\* A child throws e while the tree is built: the ErrorBoundary renders null
\* from then on (lines 59, 64), which removes a displayed Block (line 52), and
\* componentDidCatch calls set(error), lines 60-62
ChildThrows(e) ==
  /\ mounted /\ tree \in {"children", "fallback"}
  /\ renders < MaxRenders
  /\ lastEvent' = "throw"
  /\ UNCHANGED attrVars
  /\ block' = (IF tree = "fallback" THEN NotBlocking ELSE block)
  /\ caught' = e
  /\ error' = Report(e)
  /\ Evaluate("errored", delivered, block', error', width, height, visible,
              children, intersect, frameloop)
  /\ UNCHANGED <<mounted, width, height, visible, children,
                 intersect, frameloop, promises>>

\* mutant of UnmountCleanup: the cleanup skips the bridge when render was never called
UnmountCleanupIfRendered(n) == IF mountCount > 0 THEN n + 1 ELSE n

\* The number of unmountComponentAtNode calls after the cleanup on line 107
UnmountCleanup(n) == n + 1

\* The component is torn down: the cleanups of the effects on lines 105-108
\* and 111-119 run.  The bridge removes its tree, so a displayed Block runs
\* its cleanup set(false), which finds no component to update.
Teardown ==
  /\ mounted
  /\ lastEvent' = "teardown"
  /\ UNCHANGED attrVars
  /\ mounted' = FALSE
  /\ unmountCount' = UnmountCleanup(unmountCount)
  /\ observersDisconnected' = observersDisconnected + Attached
  /\ tree' = "none"
  /\ block' = (IF tree = "fallback" THEN SetState(FALSE, block, NotBlocking) ELSE block)
  /\ UNCHANGED <<width, height, error, visible, children, intersect,
                 frameloop, renders, raised, deps, intersectDep,
                 mountCount, lastMount, caught, promises, observersCreated,
                 delivered>>

\* A size report that was already under way at teardown arrives afterwards:
\* the bounds state of line 74 belongs to a component that is gone
LateSizeReport(w, h) ==
  /\ ~mounted
  /\ lastEvent' = "late size"
  /\ UNCHANGED attrVars
  /\ LET w1 == SetState(mounted, width, w)
         h1 == SetState(mounted, height, h) IN
     /\ width' = w1 /\ height' = h1
     /\ IF SizeChanged(width, height, w1, h1)
        THEN /\ renders < MaxRenders
             /\ Evaluate(tree, delivered, block, error, w1, h1, visible,
                         children, intersect, frameloop)
        ELSE UNCHANGED <<renders, raised, deps, intersectDep,
                         mountCount, lastMount, unmountCount, tree,
                         observersCreated, observersDisconnected, delivered>>
  /\ UNCHANGED <<mounted, block, error, visible, children, intersect,
                 frameloop, caught, promises>>

\* A callback of an observer that was disconnected at teardown arrives
\* afterwards: setVisible (line 115) finds no component to update
LateIntersection(b) ==
  /\ ~mounted /\ observersCreated > 0
  /\ lastEvent' = "late intersection"
  /\ UNCHANGED attrVars
  /\ LET v1 == SetState(mounted, visible, b) IN
     /\ visible' = v1
     /\ IF v1 # visible
        THEN /\ renders < MaxRenders
             /\ Evaluate(tree, delivered, block, error, width, height, v1,
                         children, intersect, frameloop)
        ELSE UNCHANGED <<renders, raised, deps, intersectDep,
                         mountCount, lastMount, unmountCount, tree,
                         observersCreated, observersDisconnected, delivered>>
  /\ UNCHANGED <<mounted, width, height, block, error, children,
                 intersect, frameloop, caught, promises>>

Next ==
  \/ \E w \in Widths, h \in Heights : SizeReport(w, h)
  \/ \E b \in BOOLEAN : Intersection(b)
  \/ \E c \in ChildrenRefs, i \in BOOLEAN, f \in Frameloops :
        Rerender(c, i, f)
  \/ ChildSuspends
  \/ ChildResolves
  \/ \E e \in Thrown : ChildThrows(e)
  \/ Teardown
  \/ \E w \in Widths, h \in Heights : LateSizeReport(w, h)
  \/ \E b \in BOOLEAN : LateIntersection(b)

Spec == Init /\ [][Next]_vars

\* ------------------------------------------- the evaluation from any state
\* A Canvas whose state hooks hold any block token and any error value
\* (lines 76-77), the Block sentinel being displayed when a token is held
EvalInit ==
  /\ mounted = TRUE
  /\ width \in Widths /\ height \in Heights
  /\ block \in 0..MaxBlocks
  /\ error \in {"false"} \cup Thrown
  /\ visible = InitialVisible
  /\ children = "c1"
  /\ intersect = FALSE
  /\ frameloop \in Frameloops
  /\ renders = 0
  /\ raised = NoRaise
  /\ deps = MountDeps(0, 0, children, 0, InitialVisible)
  /\ intersectDep = intersect
  /\ mountCount = 0
  /\ lastMount = NoMount
  /\ unmountCount = 0
  /\ tree = (IF block # NotBlocking THEN "fallback"
             ELSE IF error # "false" THEN "errored" ELSE "none")
  /\ caught = (IF error = "false" THEN "none" ELSE error)
  /\ promises = block
  /\ observersCreated = 0
  /\ observersDisconnected = 0
  /\ delivered = FALSE
  /\ lastEvent = "init"
  /\ props = NoAttrs /\ mountArgs = NoAttrs /\ divAttrs = NoAttrs

\* the events that evaluate Canvas with the state held: new props, a size
\* report, and the removal of the sentinel, which sets the block state to false
EvalNext ==
  \/ \E c \in ChildrenRefs, i \in BOOLEAN, f \in Frameloops :
        Rerender(c, i, f)
  \/ \E w \in Widths, h \in Heights : SizeReport(w, h)
  \/ ChildResolves

EvalSpec == EvalInit /\ [][EvalNext]_vars

\* ------------------------------------------------------ the attribute split
\* lines 26-42
CANVAS_PROPS ==
  {"gl", "events", "size", "shadows", "linear", "flat", "orthographic",
   "frameloop", "dpr", "performance", "clock", "raycaster", "camera",
   "onPointerMissed", "onCreated"}

\* line 69: the attributes Canvas takes out of its props by name
Destructured ==
  {"children", "fallback", "resize", "style", "events", "intersect", "frameloop"}

\* HTML attributes of the div, line 14 (a sample)
HtmlAttrs == {"className", "id", "onClick"}

AttrNames == CANVAS_PROPS \cup Destructured \cup HtmlAttrs

\* the values an attribute can be given
AttrValues(n) ==
  IF n = "intersect" THEN {"true", "false"}
  ELSE IF n = "frameloop" THEN Frameloops
  ELSE {"v1", "v2"}

\* the sets of at most k attribute names
RECURSIVE NameSets(_)
NameSets(k) ==
  IF k = 0 THEN {{}}
  ELSE LET prev == NameSets(k - 1) IN
       prev \cup {S \cup {n} : S \in prev, n \in AttrNames}

\* the attribute objects a caller can supply
SuppliedProps ==
  UNION {{q \in [S -> UNION {AttrValues(n) : n \in S}] :
            \A n \in S : q[n] \in AttrValues(n)} : S \in NameSets(MaxAttrs)}

\* an object restricted to the keys in S
Restrict(q, S) == [n \in (DOMAIN q) \cap S |-> q[n]]

\* lodash pick and omit, lines 5-6
pick(q, keys) == Restrict(q, keys)
omit(q, keys) == Restrict(q, (DOMAIN q) \ keys)

\* a property read: undefined when the object has no such key
Get(q, n) == IF n \in DOMAIN q THEN q[n] ELSE "undefined"

\* line 69: `...props`, what is left after the named attributes are taken out
RestProps(q) == omit(q, Destructured)

\* line 72
PickedProps(q) == pick(RestProps(q), CANVAS_PROPS)

\* mutant of DivProps: the allow-list is not taken out
DivPropsAll(q) == RestProps(q)

\* line 73, spread on the div on line 125
DivProps(q) == omit(RestProps(q), CANVAS_PROPS)

\* lines 95-100: the options object of the render call for the attributes q
\* and the visibility flag v; later keys replace the spread ones
RenderOptions(q, v) ==
  LET cp == PickedProps(q) IN
  [n \in (DOMAIN cp) \cup {"size", "events", "frameloop"} |->
     IF n = "size" THEN "measured"
     ELSE IF n = "events"
          THEN (IF Get(q, "events") = "undefined" THEN "createPointerEvents"
                ELSE Get(q, "events"))
     ELSE IF n = "frameloop"
          THEN ForwardedFrameloop(Get(q, "intersect") = "true", v, Get(q, "frameloop"))
     ELSE cp[n]]

\* Canvas constructed with the attributes q
SplitInit ==
  /\ CanvasInit
  /\ intersect = FALSE /\ frameloop = "always"
  /\ props \in SuppliedProps
  /\ mountArgs = NoAttrs /\ divAttrs = NoAttrs

\* One evaluation of Canvas with a positive measured size and the visibility
\* flag v: the split of lines 69-73, the div of line 125, the render call of
\* lines 90-101
SplitRender(v) ==
  /\ lastEvent = "init"
  /\ lastEvent' = "split"
  /\ visible' = v
  /\ divAttrs' = DivProps(props)
  /\ mountArgs' = RenderOptions(props, v)
  /\ UNCHANGED <<mounted, width, height, block, error, children, intersect,
                 frameloop, renders, raised, deps, intersectDep, mountCount,
                 lastMount, unmountCount, tree, caught, promises,
                 observersCreated, observersDisconnected, delivered, props>>

SplitNext == \E v \in BOOLEAN : SplitRender(v)

SplitSpec == SplitInit /\ [][SplitNext]_vars

\* ------------------------------------------------- the configuration props
\* the intersect, frameloop and events attributes a caller can configure
ConfigNames == {"intersect", "frameloop", "events"}

ConfigProps ==
  {q \in [ConfigNames -> UNION {AttrValues(n) : n \in ConfigNames}] :
     \A n \in ConfigNames : q[n] \in AttrValues(n)}

\* Canvas constructed with gating off, a continuous frameloop and the events
\* factory v1
ConfigInit ==
  /\ CanvasInit
  /\ props = [n \in ConfigNames |->
               IF n = "intersect" THEN "false"
               ELSE IF n = "frameloop" THEN "always" ELSE "v1"]
  /\ intersect = FALSE /\ frameloop = "always"
  /\ mountArgs = NoAttrs /\ divAttrs = NoAttrs

\* The parent evaluates Canvas with the configuration q, lines 68-70;
\* mountArgs is the options object of the render call of this evaluation
\* (lines 95-100), when it makes one
ConfigRerender(q) ==
  /\ mounted /\ renders < MaxRenders
  /\ lastEvent' = "config"
  /\ props' = q
  /\ intersect' = (q["intersect"] = "true") /\ frameloop' = q["frameloop"]
  /\ Evaluate(tree, delivered, block, error, width, height, visible,
              children, intersect', frameloop')
  /\ mountArgs' = (IF mountCount' # mountCount THEN RenderOptions(q, visible)
                   ELSE mountArgs)
  /\ UNCHANGED <<mounted, width, height, block, error, visible, children,
                 caught, promises, divAttrs>>

ConfigNext ==
  \/ \E q \in ConfigProps : ConfigRerender(q)
  \/ \E w \in Widths, h \in Heights : SizeReport(w, h)
  \/ \E b \in BOOLEAN : Intersection(b)
  \/ ChildSuspends
  \/ ChildResolves
  \/ \E e \in Thrown : ChildThrows(e)

ConfigSpec == ConfigInit /\ [][ConfigNext]_vars

\* ----------------------------------------------------------------- claims
\* An evaluation of Canvas completed without raising in the latest step
Committed == raised = NoRaise /\ deps[4] = canvasProps(renders)

\* C1: tearing the component down results in exactly one call of
\* unmountComponentAtNode, whatever state it was torn down from: never
\* mounted on the bridge, mounted with a positive size, suspended on a block
\* token, or holding a captured error.
C1_TeardownUnmountsOnce ==
  /\ [](~mounted => unmountCount = 1)
  /\ [][(mounted /\ ~mounted') => unmountCount' = unmountCount + 1]_vars

\* C1 witness: torn down while suspended on a block token
C1_Witness ==
  ~mounted /\ lastEvent = "teardown" /\ raised.block # NotBlocking /\ unmountCount = 1

\* C1, the other cases of the claim: torn down with no mount call ever made,
\* and torn down after the error was re-thrown
C1_WitnessNeverMounted == ~mounted /\ mountCount = 0 /\ unmountCount = 1
C1_WitnessErrored == ~mounted /\ Truthy(raised.error) /\ unmountCount = 1

\* C7: unmountComponentAtNode is never called while the component stays
\* mounted; the only step that calls it is the teardown.
C7_UnmountOnlyAtTeardown ==
  [][unmountCount' # unmountCount => (mounted /\ ~mounted' /\ lastEvent' = "teardown")]_vars

\* C7 witness: still mounted, no unmount call, after the size went back to
\* zero following a mount, and while suspended
C7_Witness ==
  /\ mounted /\ unmountCount = 0 /\ mountCount > 0
  /\ ~MountGuard(width, height) /\ block # NotBlocking

\* A size report changed the size to a positive width and height in this step
SizeBecamePositive ==
  /\ lastEvent' = "size"
  /\ <<width', height'>> # <<width, height>>
  /\ width' > 0 /\ height' > 0

\* The component neither is suspended nor holds an error object after this step
Renders == block' = NotBlocking /\ ~Truthy(error')

\* C2 as stated: a mount call is made only with a positive width and height,
\* it carries the size just reported, and every report that changes the size
\* to a positive width and height is followed by a mount call.
C2_Original ==
  [][ /\ (mountCount' # mountCount =>
            /\ width' > 0 /\ height' > 0
            /\ lastMount'.width = width' /\ lastMount'.height = height')
      /\ (SizeBecamePositive => mountCount' = mountCount + 1) ]_vars

\* C2 amended: a mount call is made only with a positive width and height, it
\* carries the size just reported, and a report that changes the size to a
\* positive width and height is followed by a mount call provided the
\* component is not suspended on a block token and holds no error object.
C2_MountIffPositive ==
  [][ /\ (mountCount' # mountCount =>
            /\ width' > 0 /\ height' > 0
            /\ lastMount'.width = width' /\ lastMount'.height = height')
      /\ (SizeBecamePositive /\ Renders => mountCount' = mountCount + 1)
      /\ (SizeBecamePositive /\ ~Renders => mountCount' = mountCount) ]_vars

\* C2 witness: a report just changed the size to a positive one and the mount
\* call carrying it was made
C2_Witness ==
  /\ lastEvent = "size" /\ Committed
  /\ width > 0 /\ height > 0
  /\ mountCount = 1 /\ lastMount.width = width /\ lastMount.height = height

\* the failure objects among the values a child can throw
FailureObjects == {e \in Thrown : Truthy(e)}

C4_Original ==
  [][ (~intersect /\ intersect' /\ mountCount' # mountCount) =>
        lastMount'.frameloop = frameloop' ]_vars

\* C5: in every mount call the forwarded frameloop is "never" when intersect is
\* enabled and the visibility flag is false, and the caller-configured mode in
\* every other case, in particular whenever intersect is disabled.
C5_FrameloopForwarding ==
  [][ mountCount' # mountCount =>
        /\ (intersect' /\ ~visible' => lastMount'.frameloop = "never")
        /\ (~(intersect' /\ ~visible') => lastMount'.frameloop = frameloop')
        /\ (~intersect' => lastMount'.frameloop = frameloop') ]_vars

\* C5 witness: a mount call made with intersect off and the flag false
\* forwarded the configured mode
C5_Witness ==
  /\ Committed /\ mountCount > 0 /\ width > 0 /\ height > 0
  /\ ~intersect /\ ~visible /\ frameloop = "always" /\ lastMount.frameloop = "always"

\* C5, the paused case: intersect on, flag false, "never" forwarded
C5_WitnessPaused ==
  /\ Committed /\ mountCount > 0 /\ width > 0 /\ height > 0
  /\ intersect /\ ~visible /\ frameloop = "always" /\ lastMount.frameloop = "never"

\* C6 as stated: with intersect on, after each intersection callback the
\* latest mount call's frameloop (when a mount call was ever made) agrees with
\* the new intersecting state.
C6_Original ==
  [][ (lastEvent' = "intersection" /\ intersect' /\ mountCount' > 0) =>
        lastMount'.frameloop = (IF visible' THEN frameloop' ELSE "never") ]_vars

\* C6 amended: with intersect on, the size positive, and the component neither
\* suspended nor holding an error object, after each intersection callback the
\* latest mount call's frameloop agrees with the new intersecting state:
\* "never" when the canvas left the viewport, the configured mode when it
\* re-entered.
C6_PauseFollowsIntersection ==
  [][ (lastEvent' = "intersection" /\ intersect' /\ Renders
         /\ width' > 0 /\ height' > 0) =>
        /\ mountCount' > 0
        /\ lastMount'.frameloop = (IF visible' THEN frameloop' ELSE "never") ]_vars

\* C6 witness: the canvas re-entered the viewport and the configured mode was
\* restored by a second mount call
C6_Witness ==
  /\ lastEvent = "intersection" /\ Committed /\ intersect /\ visible
  /\ frameloop = "always" /\ lastMount.frameloop = "always" /\ mountCount >= 2

\* C6, the leaving case: the flag went from true to false and "never" was forwarded
C6_WitnessLeft ==
  /\ lastEvent = "intersection" /\ Committed /\ intersect /\ ~visible
  /\ frameloop = "always" /\ lastMount.frameloop = "never" /\ mountCount >= 3

\* C8 as stated: a size report causes one mount call when it changes the size
\* to a positive width and height, and no call of the bridge otherwise.
C8_Original ==
  [][ lastEvent' = "size" =>
        /\ mountCount' - mountCount = (IF SizeBecamePositive THEN 1 ELSE 0)
        /\ unmountCount' = unmountCount ]_vars

\* C8 amended: a size report causes one mount call when it changes the size to
\* a positive width and height while the component is neither suspended nor
\* holding an error object, and no call of the bridge otherwise (an equal
\* size, a size that is not positive, a suspended or failed component).
C8_MountsPerSizeReport ==
  [][ lastEvent' = "size" =>
        /\ mountCount' - mountCount = (IF SizeBecamePositive /\ Renders THEN 1 ELSE 0)
        /\ unmountCount' = unmountCount ]_vars

\* C8 witness: the end of the scenario (0,0), (2,1), (2,1), (0,0): one mount call
C8_Witness ==
  /\ lastEvent = "size" /\ width = 0 /\ height = 0
  /\ renders = 2 /\ mountCount = 1 /\ unmountCount = 0
  /\ lastMount.width = 2 /\ lastMount.height = 1

\* C9: Block sets the block state to a new pending token when it is displayed
\* and back to false when it is removed; while the block state holds a token
\* every evaluation raises that token, and no mount call is made.
C9_BlockSuspends ==
  /\ [](mounted => (tree = "fallback" <=> block # NotBlocking))
  /\ [][ /\ (lastEvent' = "suspend" => block' # NotBlocking /\ block' # block)
         /\ (lastEvent' = "resolve" => block' = NotBlocking)
         /\ (block' # NotBlocking /\ renders' # renders =>
               raised' = [block |-> block', error |-> "false"])
         /\ (block' # NotBlocking => mountCount' = mountCount) ]_vars

\* C9 witness: suspended, and an evaluation caused by a size report raised
\* the stored token
C9_Witness ==
  /\ mounted /\ lastEvent = "size" /\ tree = "fallback"
  /\ block # NotBlocking /\ raised.block = block /\ deps[4] < renders - 1

\* C10 as stated: an observer is attached exactly when the component is
\* mounted and intersect is enabled.
C10_Original == (Attached = 1) <=> (mounted /\ intersect)

\* C10 amended: an observer is attached exactly when the component is mounted
\* and intersect was enabled at its latest evaluation that completed without
\* raising (a toggle made while the component is suspended or holds an error
\* takes effect at the next evaluation that completes); none is created while
\* intersect is off, at most one is attached, and every observer created is
\* disconnected once, at a toggle or at teardown.
C10_ObserverLifecycle ==
  /\ [](/\ Attached \in {0, 1}
        /\ (mounted => (Attached = 1 <=> intersectDep))
        /\ (mounted /\ block = NotBlocking /\ ~Truthy(error) => intersectDep = intersect)
        /\ (~mounted => observersDisconnected = observersCreated))
  /\ [][ /\ (observersCreated' # observersCreated =>
               intersect' /\ observersCreated' = observersCreated + 1)
         /\ (observersDisconnected' # observersDisconnected =>
               /\ observersDisconnected' = observersDisconnected + 1
               /\ (intersect # intersect' \/ intersectDep # intersect' \/ ~mounted')) ]_vars

\* C10 witness: torn down while suspended, the second observer disconnected
C10_Witness ==
  /\ ~mounted /\ raised.block # NotBlocking
  /\ observersCreated = 2 /\ observersDisconnected = 2

\* C11 as stated, read in its favour (children, fallback, resize, style and
\* intersect, which Canvas consumes itself, and size, which the component
\* measures, are left aside): every supplied attribute named in CANVAS_PROPS
\* is forwarded unmodified in the mount call and is not applied to the
\* container; every other supplied attribute is applied to the container and
\* not passed to mount.
C11_Original ==
  lastEvent = "split" =>
    \A n \in (DOMAIN props) \ {"children", "fallback", "resize", "style", "intersect", "size"} :
      IF n \in CANVAS_PROPS
      THEN /\ n \in DOMAIN mountArgs /\ mountArgs[n] = props[n]
           /\ n \notin DOMAIN divAttrs
      ELSE /\ n \in DOMAIN divAttrs /\ divAttrs[n] = props[n]
           /\ n \notin DOMAIN mountArgs

\* C11 amended: the supplied attributes other than the seven Canvas takes out
\* by name are split by CANVAS_PROPS into two disjoint groups that cover them:
\* one named in the allow-list is passed in the mount call's options and not
\* applied to the container, unmodified unless it is size, which the measured
\* size replaces; every other one is applied to the container and not passed
\* to mount.  Of the seven, none is spread on the container, events is
\* forwarded unmodified, and frameloop is forwarded unmodified unless intersect
\* is enabled and the visibility flag is false, when "never" is forwarded.
C11_AttributeSplit ==
  lastEvent = "split" =>
    /\ (DOMAIN mountArgs) \cap (DOMAIN divAttrs) = {}
    /\ \A n \in (DOMAIN props) \ Destructured :
         IF n \in CANVAS_PROPS
         THEN /\ n \in DOMAIN mountArgs /\ n \notin DOMAIN divAttrs
              /\ mountArgs[n] = (IF n = "size" THEN "measured" ELSE props[n])
         ELSE /\ n \in DOMAIN divAttrs /\ divAttrs[n] = props[n]
              /\ n \notin DOMAIN mountArgs
    /\ \A n \in (DOMAIN props) \cap Destructured : n \notin DOMAIN divAttrs
    /\ ("events" \in DOMAIN props => mountArgs["events"] = props["events"])
    /\ ("frameloop" \in DOMAIN props =>
          mountArgs["frameloop"] =
            (IF "intersect" \in DOMAIN props /\ props["intersect"] = "true" /\ ~visible
             THEN "never" ELSE props["frameloop"]))

\* C11 witness: an allow-list attribute and an HTML attribute were supplied;
\* the first went to the mount call, the second to the container
C11_Witness ==
  /\ lastEvent = "split"
  /\ DOMAIN props = {"camera", "className"}
  /\ mountArgs["camera"] = props["camera"] /\ "camera" \notin DOMAIN divAttrs
  /\ divAttrs["className"] = props["className"] /\ "className" \notin DOMAIN mountArgs

\* a size report, an intersection callback (with intersect enabled) or a new
\* children reference changed the size, the visibility flag or the children
\* in this step
MountInputChanged ==
  \/ <<width', height'>> # <<width, height>>
  \/ (intersect' /\ visible' # visible)
  \/ children' # children

\* C12: while the size is positive and the component is neither suspended
\* nor holding an error, every change of the size, of the visibility flag
\* (with intersect enabled) or of the children reference makes one more
\* mount call, whose size, children and frameloop derived from visibility
\* are the component's values after the change.
C12_RemountOnChange ==
  [][ (MountInputChanged /\ width' > 0 /\ height' > 0 /\ Renders) =>
        /\ mountCount' = mountCount + 1
        /\ lastMount' = [width |-> width', height |-> height',
                         children |-> children',
                         frameloop |-> IF intersect' /\ ~visible'
                                       THEN "never" ELSE frameloop'] ]_vars

\* C12 witness: mounted with c1 at size (1,1); then the visibility flag, the
\* size and the children changed in turn, each change making its own mount
\* call, the latest with the current values
C12_Witness ==
  /\ lastEvent = "props" /\ mountCount = 4 /\ renders = 4
  /\ intersect /\ visible /\ children = "c2" /\ width = 2 /\ height = 1
  /\ lastMount = [width |-> 2, height |-> 1, children |-> "c2",
                  frameloop |-> frameloop]

C14_Resumption ==
  [][ /\ (mounted' /\ tree = "fallback" /\ tree' = "children" =>
            /\ block' = NotBlocking
            /\ renders' = renders + 1 /\ raised' = NoRaise
            /\ (width' > 0 /\ height' > 0 =>
                  /\ mountCount' = mountCount + 1
                  /\ lastMount'.width = width' /\ lastMount'.height = height'
                  /\ lastMount'.frameloop = (IF intersect' /\ ~visible'
                                             THEN "never" ELSE frameloop')))
      /\ (mounted' /\ tree' = "fallback" =>
            /\ mountCount' = mountCount /\ deps' = deps
            /\ (renders' # renders => raised' # NoRaise)) ]_vars

\* C14 witness: the sentinel was removed at size (2,1) with the canvas in
\* view, and the evaluation that followed made the second mount call, with
\* that size and the configured frameloop
C14_Witness ==
  /\ mounted /\ lastEvent = "resolve" /\ block = NotBlocking /\ raised = NoRaise
  /\ tree = "children" /\ renders = 4 /\ mountCount = 2
  /\ intersect /\ visible /\ frameloop = "always"
  /\ width = 2 /\ height = 1
  /\ lastMount = [width |-> 2, height |-> 1, children |-> "c1",
                  frameloop |-> "always"]

\* C15: once the component has been torn down no mount call is made: a size
\* report, an intersection callback or the Block sentinel's set(false) that
\* arrives after teardown changes no state, causes no evaluation and leaves
\* the mount calls as they were.
C15_NoMountAfterTeardown ==
  [][ (~mounted \/ ~mounted') =>
        /\ mountCount' = mountCount /\ lastMount' = lastMount
        /\ renders' = renders /\ block' = block
        /\ <<width', height', visible'>> = <<width, height, visible>> ]_vars

\* C15 witness: torn down after a mount while the sentinel was displayed
\* (its cleanup found no component), and a size report arrived afterwards
C15_Witness ==
  /\ ~mounted /\ lastEvent = "late size" /\ unmountCount = 1
  /\ mountCount = 1 /\ block # NotBlocking /\ width = 1 /\ tree = "none"

\* C15 witness: an intersection callback arrived after teardown
C15_WitnessIntersection ==
  /\ ~mounted /\ lastEvent = "late intersection" /\ unmountCount = 1
  /\ mountCount = 2 /\ ~visible

\* C16: the block check precedes the error check: an evaluation of Canvas
\* in a state that holds a block token raises that token and not the error,
\* whether or not an error is held as well, and an evaluation raises the
\* stored error only when the block state is false.
C16_BlockCheckFirst ==
  [][ renders' # renders =>
        /\ (block' # NotBlocking =>
              raised' = [block |-> block', error |-> "false"])
        /\ (raised'.error # "false" =>
              block' = NotBlocking /\ raised'.error = error') ]_vars

\* C16 witness: a token and the error errA are both held, and the evaluation
\* for new props raised the token
C16_Witness ==
  /\ lastEvent = "props" /\ block = 2 /\ error = "errA"
  /\ raised = [block |-> 2, error |-> "false"]

\* C16 witness: the sentinel was removed while errA was held, and the
\* evaluation that followed re-threw errA
C16_WitnessAfterUnblock ==
  /\ lastEvent = "resolve" /\ block = NotBlocking /\ error = "errA"
  /\ raised = [block |-> NotBlocking, error |-> "errA"]

\* C17: every evaluation of Canvas that raises nothing at a positive size
\* makes a mount call, which forwards the frameloop derived from the
\* intersect and frameloop props of that evaluation; an evaluation for a new
\* configuration forwards its events and its frameloop in the options of
\* that call.
C17_MountOnEveryEvaluation ==
  [][ (renders' # renders /\ raised' = NoRaise /\ width' > 0 /\ height' > 0) =>
        /\ mountCount' = mountCount + 1
        /\ lastMount'.frameloop =
             (IF intersect' /\ ~visible' THEN "never" ELSE frameloop')
        /\ (lastEvent' = "config" =>
              /\ intersect' = (props'["intersect"] = "true")
              /\ frameloop' = props'["frameloop"]
              /\ mountArgs'["events"] = props'["events"]
              /\ mountArgs'["frameloop"] = lastMount'.frameloop) ]_vars

\* C17 witness: mounted at (1,1) by the first size report; the second
\* evaluation came with a new events factory and a paused frameloop, size,
\* children and visibility being as before, and it made the second mount call
C17_Witness ==
  /\ lastEvent = "config" /\ renders = 2 /\ mountCount = 2
  /\ width = 1 /\ height = 1 /\ children = "c1" /\ visible = InitialVisible
  /\ props = [n \in ConfigNames |->
               IF n = "intersect" THEN "false"
               ELSE IF n = "frameloop" THEN "never" ELSE "v2"]
  /\ mountArgs["events"] = "v2" /\ mountArgs["frameloop"] = "never"
  /\ lastMount.frameloop = "never"
====
